---- MODULE Spec2Model ----
(***************************************************************************)
(* Engineering unit converter (src/converter.py): the three conversion     *)
(* functions, the command-line entry point main() and the self-test that   *)
(* runs when the script is started without arguments.                      *)
(*                                                                         *)
(* Python floats are IEEE-754 binary64 numbers.  They are modelled bit for *)
(* bit: a finite float is sign, mantissa and exponent, the mantissa held   *)
(* as a little-endian sequence of 15-bit limbs, and every *, /, + and -    *)
(* rounds to nearest, ties to even, as the hardware does.                  *)
(*                                                                         *)
(* Unit tokens are sequences of one-character strings, so that lower(),    *)
(* upper(), replace() and indexing act on characters as they do in Python. *)
(***************************************************************************)
EXTENDS Integers, Sequences, FiniteSets, TLC

VARIABLES argv, pc, args, result, stdout, stderr, exitcode, call, ret, back

vars == <<argv, pc, args, result, stdout, stderr, exitcode, call, ret, back>>
cli == <<argv, pc, args, result, stdout, stderr, exitcode>>
harness == <<call, ret, back>>

(***************************************************************************)
(* Natural numbers of any size, as little-endian sequences of limbs.       *)
(***************************************************************************)
Max(x, y) == IF x > y THEN x ELSE y

Min(x, y) == IF x < y THEN x ELSE y

B == 32768
LimbBits == 15

RECURSIVE Pow2(_)
Pow2(n) == IF n = 0 THEN 1 ELSE 2 * Pow2(n - 1)

RECURSIVE IntBitLen(_)
IntBitLen(n) == IF n = 0 THEN 0 ELSE 1 + IntBitLen(n \div 2)

RECURSIVE BNorm(_)
BNorm(a) == IF a = <<>> THEN <<>>
            ELSE IF a[Len(a)] = 0 THEN BNorm(SubSeq(a, 1, Len(a) - 1)) ELSE a

RECURSIVE BFromInt(_)
BFromInt(n) == IF n = 0 THEN <<>> ELSE <<n % B>> \o BFromInt(n \div B)

Limb(a, i) == IF i <= Len(a) THEN a[i] ELSE 0

RECURSIVE BAddC(_, _, _, _)
BAddC(a, b, i, c) ==
    IF i > Len(a) /\ i > Len(b)
    THEN IF c = 0 THEN <<>> ELSE <<c>>
    ELSE <<(Limb(a, i) + Limb(b, i) + c) % B>>
         \o BAddC(a, b, i + 1, (Limb(a, i) + Limb(b, i) + c) \div B)

BAdd(a, b) == BAddC(a, b, 1, 0)

RECURSIVE BSubC(_, _, _, _)
BSubC(a, b, i, c) ==
    IF i > Len(a) THEN <<>>
    ELSE IF Limb(a, i) - Limb(b, i) - c < 0
         THEN <<Limb(a, i) - Limb(b, i) - c + B>> \o BSubC(a, b, i + 1, 1)
         ELSE <<Limb(a, i) - Limb(b, i) - c>> \o BSubC(a, b, i + 1, 0)

BSub(a, b) == BNorm(BSubC(a, b, 1, 0))

RECURSIVE BCmpAt(_, _, _)
BCmpAt(a, b, i) ==
    IF i = 0 THEN 0
    ELSE IF a[i] > b[i] THEN 1
    ELSE IF a[i] < b[i] THEN -1
    ELSE BCmpAt(a, b, i - 1)

BCmp(a, b) == IF Len(a) > Len(b) THEN 1
              ELSE IF Len(a) < Len(b) THEN -1
              ELSE BCmpAt(a, b, Len(a))

RECURSIVE BMulSmallC(_, _, _, _)
BMulSmallC(a, k, i, c) ==
    IF i > Len(a) THEN IF c = 0 THEN <<>> ELSE <<c>>
    ELSE <<(a[i] * k + c) % B>> \o BMulSmallC(a, k, i + 1, (a[i] * k + c) \div B)

BMulSmall(a, k) == IF k = 0 THEN <<>> ELSE BMulSmallC(a, k, 1, 0)

Zeros(n) == [i \in 1..n |-> 0]

RECURSIVE BMulAt(_, _, _)
BMulAt(a, b, j) ==
    IF j > Len(b) THEN <<>>
    ELSE BAdd(IF b[j] = 0 THEN <<>> ELSE Zeros(j - 1) \o BMulSmall(a, b[j]),
              BMulAt(a, b, j + 1))

BMul(a, b) == IF a = <<>> \/ b = <<>> THEN <<>> ELSE BMulAt(a, b, 1)

BShl(a, n) == IF a = <<>> THEN <<>>
              ELSE Zeros(n \div LimbBits) \o BMulSmall(a, Pow2(n % LimbBits))

BShrBy(a, d, p) ==
    IF d >= Len(a) THEN <<>>
    ELSE BNorm([i \in 1..(Len(a) - d) |->
                  (a[i + d] \div p) + (Limb(a, i + d + 1) % p) * (B \div p)])

BShr(a, n) == BShrBy(a, n \div LimbBits, Pow2(n % LimbBits))

BBitLen(a) == IF a = <<>> THEN 0
              ELSE LimbBits * (Len(a) - 1) + IntBitLen(a[Len(a)])

BOdd(a) == a # <<>> /\ a[1] % 2 = 1

\* long division, one limb of the quotient per step; the divisor b has its top
\* bit set, so the estimate from the top limbs is at most 2 too large
RECURSIVE QFix(_, _, _)
QFix(b, r, qhat) == IF BCmp(BMulSmall(b, qhat), r) > 0 THEN QFix(b, r, qhat - 1) ELSE qhat

RECURSIVE BDivStep(_, _, _, _, _)
BDivNext(a, b, i, q, r, qhat) ==
    BDivStep(a, b, i - 1, <<qhat>> \o q, BSub(r, BMulSmall(b, qhat)))

BDivDigit(a, b, i, q, r) ==
    BDivNext(a, b, i, q, r,
             QFix(b, r, Min(B - 1, (Limb(r, Len(b) + 1) * B + Limb(r, Len(b))) \div b[Len(b)])))

BDivStep(a, b, i, q, r) ==
    IF i = 0 THEN <<BNorm(q), r>>
    ELSE BDivDigit(a, b, i, q, BNorm(<<a[i]>> \o r))

BUnshift(qr, sh) == <<qr[1], BShr(qr[2], sh)>>

BDivRun(a, b, sh) == BUnshift(BDivStep(a, b, Len(a), <<>>, <<>>), sh)

BDivShifted(a, b, sh) == BDivRun(BShl(a, sh), BShl(b, sh), sh)

\* <<quotient, remainder>> of a by b, b not zero
BDivMod(a, b) == BDivShifted(a, b, LimbBits - IntBitLen(b[Len(b)]))

(***************************************************************************)
(* binary64: 53 bits of mantissa m, value (-1)^s * m * 2^e; a normal       *)
(* number has 2^52 <= m < 2^53, a subnormal one has e = MinExp.            *)
(***************************************************************************)
MantBits == 53
MinExp == -1074
MaxExp == 971

Fin(s, m, e) == [k |-> "fin", s |-> s, m |-> m, e |-> e]
FZero(s) == [k |-> "fin", s |-> s, m |-> <<>>, e |-> 0]
FInf(s) == [k |-> "inf", s |-> s, m |-> <<>>, e |-> 0]
FNaN == [k |-> "nan", s |-> 0, m |-> <<>>, e |-> 0]

IsZero(a) == a.k = "fin" /\ a.m = <<>>

\* round to nearest, ties to even: the float nearest (-1)^s * M * 2^E, where
\* sticky says that the exact value lies strictly above M * 2^E and below
\* (M + 1) * 2^E
FPack(s, m, e) == IF e > MaxExp THEN FInf(s) ELSE Fin(s, m, e)

FNormal(s, e, q) ==
    IF q = <<>> THEN FZero(s)
    ELSE IF BBitLen(q) > MantBits THEN FPack(s, BShr(q, 1), e + 1)
    ELSE FPack(s, q, e)

FRoundUp(s, e, q, c, sticky) ==
    FNormal(s, e, IF c > 0 \/ (c = 0 /\ (sticky \/ BOdd(q))) THEN BAdd(q, <<1>>) ELSE q)

FRoundShifted(s, M, sticky, e, sh, q) ==
    FRoundUp(s, e, q, BCmp(BSub(M, BShl(q, sh)), BShl(<<1>>, sh - 1)), sticky)

FRoundAt(s, M, E, sticky, e) ==
    IF e <= E THEN FPack(s, BShl(M, E - e), e)
    ELSE FRoundShifted(s, M, sticky, e, e - E, BShr(M, e - E))

FRound(s, M, E, sticky) ==
    IF M = <<>> THEN FZero(s)
    ELSE FRoundAt(s, M, E, sticky, Max(E + BBitLen(M) - MantBits, MinExp))

FRoundT(t) == FRound(t[1], t[2], t[3], t[4])

FromInt(n) == FRound(IF n < 0 THEN 1 ELSE 0, BFromInt(IF n < 0 THEN -n ELSE n), 0, FALSE)

FNeg(a) == IF a.k = "nan" THEN a ELSE [a EXCEPT !.s = 1 - a.s]
FAbs(a) == IF a.k = "nan" THEN a ELSE [a EXCEPT !.s = 0]

SignOf(a, b) == (a.s + b.s) % 2

FMul(a, b) ==
    IF a.k = "nan" \/ b.k = "nan" THEN FNaN
    ELSE IF a.k = "inf" \/ b.k = "inf"
         THEN IF IsZero(a) \/ IsZero(b) THEN FNaN ELSE FInf(SignOf(a, b))
    ELSE FRound(SignOf(a, b), BMul(a.m, b.m), a.e + b.e, FALSE)

ZeroDivisionError == [k |-> "ZeroDivisionError", s |-> 0, m |-> <<>>, e |-> 0]

FDivRound(s, qr, E) == FRound(s, qr[1], E, qr[2] # <<>>)

\* the quotient is taken with MantBits + 2 bits at least
FDivAt(s, M, EM, D, ED, n) == FDivRound(s, BDivMod(BShl(M, n), D), EM - ED - n)

FDiv(a, b) ==
    IF IsZero(b) THEN ZeroDivisionError
    ELSE IF a.k = "nan" \/ b.k = "nan" THEN FNaN
    ELSE IF a.k = "inf" THEN (IF b.k = "inf" THEN FNaN ELSE FInf(SignOf(a, b)))
    ELSE IF b.k = "inf" \/ IsZero(a) THEN FZero(SignOf(a, b))
    ELSE FDivAt(SignOf(a, b), a.m, a.e, b.m, b.e,
                Max(0, MantBits + 2 + BBitLen(b.m) - BBitLen(a.m)))

GuardBits == 64

AddDiff(sa, x, sb, y, E, c) ==
    IF c = 0 THEN <<0, <<>>, E, FALSE>>
    ELSE IF c > 0 THEN <<sa, BSub(x, y), E, FALSE>>
    ELSE <<sb, BSub(y, x), E, FALSE>>

AddAligned(sa, x, sb, y, E) ==
    IF sa = sb THEN <<sa, BAdd(x, y), E, FALSE>>
    ELSE AddDiff(sa, x, sb, y, E, BCmp(x, y))

\* the exact sum of finite nonzero a and b, a.e >= b.e; a summand more than
\* GuardBits below the other only tells on which side of it the sum lies
AddExact(a, b) ==
    IF a.e - b.e > GuardBits
    THEN <<a.s, IF a.s = b.s THEN BShl(a.m, 2) ELSE BSub(BShl(a.m, 2), <<1>>), a.e - 2, TRUE>>
    ELSE AddAligned(a.s, BShl(a.m, a.e - b.e), b.s, b.m, b.e)

FAdd(a, b) ==
    IF a.k = "nan" \/ b.k = "nan" THEN FNaN
    ELSE IF a.k = "inf" THEN (IF b.k = "inf" /\ b.s # a.s THEN FNaN ELSE a)
    ELSE IF b.k = "inf" THEN b
    ELSE IF IsZero(a) THEN (IF IsZero(b) THEN FZero(IF a.s = 1 /\ b.s = 1 THEN 1 ELSE 0) ELSE b)
    ELSE IF IsZero(b) THEN a
    ELSE FRoundT(IF a.e >= b.e THEN AddExact(a, b) ELSE AddExact(b, a))

FSub(a, b) == FAdd(a, FNeg(b))

\* the order of two finite magnitudes
MagLess(a, b) == IF a.m = <<>> THEN b.m # <<>>
                 ELSE IF b.m = <<>> THEN FALSE
                 ELSE a.e < b.e \/ (a.e = b.e /\ BCmp(a.m, b.m) < 0)

FLess(a, b) ==
    IF a.k = "nan" \/ b.k = "nan" THEN FALSE
    ELSE IF IsZero(a) /\ IsZero(b) THEN FALSE
    ELSE IF a.s # b.s THEN a.s = 1
    ELSE IF a.k = "inf" THEN (a.s = 1 /\ b.k # "inf")
    ELSE IF b.k = "inf" THEN b.s = 0
    ELSE IF a.s = 0 THEN MagLess(a, b) ELSE MagLess(b, a)

FEq(a, b) == IF a.k = "nan" \/ b.k = "nan" THEN FALSE
             ELSE (IsZero(a) /\ IsZero(b)) \/ a = b

FLeq(a, b) == FLess(a, b) \/ FEq(a, b)

RECURSIVE BPow10(_)
BPow10(x) == IF x = 0 THEN <<1>> ELSE BMulSmall(BPow10(x - 1), 10)

DecimalDiv(s, N, d, sh) == FDivRound(s, BDivMod(BShl(N, sh), d), -sh)

DecimalRatio(s, N, d) == DecimalDiv(s, N, d, Max(0, MantBits + 2 + BBitLen(d) - BBitLen(N)))

\* the float a decimal literal stands for: n * 10^x, correctly rounded
DecimalToFloat(neg, n, x) ==
    IF x >= 0 THEN FRound(IF neg THEN 1 ELSE 0, BMul(BFromInt(n), BPow10(x)), 0, FALSE)
    ELSE DecimalRatio(IF neg THEN 1 ELSE 0, BFromInt(n), BPow10(-x))

(***************************************************************************)
(* str: lower(), upper() and replace() on sequences of characters.         *)
(***************************************************************************)
UpperAlphabet == <<"A", "B", "C", "D", "E", "F", "G", "H", "I", "J", "K", "L", "M",
                   "N", "O", "P", "Q", "R", "S", "T", "U", "V", "W", "X", "Y", "Z">>
LowerAlphabet == <<"a", "b", "c", "d", "e", "f", "g", "h", "i", "j", "k", "l", "m",
                   "n", "o", "p", "q", "r", "s", "t", "u", "v", "w", "x", "y", "z">>

Letters == 1..Len(UpperAlphabet)

LowerChar(c) == IF \E i \in Letters : UpperAlphabet[i] = c
                THEN LowerAlphabet[CHOOSE i \in Letters : UpperAlphabet[i] = c]
                ELSE c

UpperChar(c) == IF \E i \in Letters : LowerAlphabet[i] = c
                THEN UpperAlphabet[CHOOSE i \in Letters : LowerAlphabet[i] = c]
                ELSE c

lower(str) == [i \in 1..Len(str) |-> LowerChar(str[i])]

upper(str) == [i \in 1..Len(str) |-> UpperChar(str[i])]

RECURSIVE replace(_, _, _)
replace(str, old, new) ==
    IF str = <<>> THEN <<>>
    ELSE (IF Head(str) = old THEN new ELSE <<Head(str)>>) \o replace(Tail(str), old, new)

(***************************************************************************)
(* What a call does: it returns a value or raises an exception.            *)
(***************************************************************************)
PyNone == [k |-> "None", s |-> 0, m |-> <<>>, e |-> 0]
Unbound == [k |-> "unbound", s |-> 0, m |-> <<>>, e |-> 0]

Return(v) == [tag |-> "return", exc |-> "", msg |-> "", val |-> v]
Raise(exc, msg) == [tag |-> "raise", exc |-> exc, msg |-> msg, val |-> PyNone]
NotCalled == [tag |-> "not called", exc |-> "", msg |-> "", val |-> PyNone]

IsFloat(v) == v.k \in {"fin", "inf", "nan"}

(***************************************************************************)
(* convert_pressure                                                        *)
(***************************************************************************)
psi == <<"p", "s", "i">>
bar == <<"b", "a", "r">>
kpa == <<"k", "p", "a">>
mpa == <<"m", "p", "a">>
pa == <<"p", "a">>

to_pa == (psi :> DecimalToFloat(FALSE, 6894757, -3))
      @@ (bar :> FromInt(100000))
      @@ (kpa :> FromInt(1000))
      @@ (mpa :> FromInt(1000000))
      @@ (pa :> FromInt(1))

PressureMessage == "Unsupported pressure units. Use: psi, bar, kpa, mpa, pa"

\* a faulty variant: the two factors taken the wrong way round
convert_pressure_inverted(value, from_unit, to_unit) ==
    LET from_unit1 == lower(from_unit)
        to_unit1 == lower(to_unit)
    IN IF from_unit1 \notin DOMAIN to_pa \/ to_unit1 \notin DOMAIN to_pa
       THEN Raise("ValueError", PressureMessage)
       ELSE Return(FDiv(FMul(value, to_pa[to_unit1]), to_pa[from_unit1]))

\* a faulty variant: only from_unit is checked, a bad to_unit fails in the lookup
convert_pressure_unchecked_to(value, from_unit, to_unit) ==
    LET from_unit1 == lower(from_unit)
        to_unit1 == lower(to_unit)
    IN IF from_unit1 \notin DOMAIN to_pa
       THEN Raise("ValueError", PressureMessage)
       ELSE IF to_unit1 \notin DOMAIN to_pa THEN Raise("KeyError", "")
       ELSE Return(FDiv(FMul(value, to_pa[from_unit1]), to_pa[to_unit1]))

convert_pressure(value, from_unit, to_unit) ==
    LET from_unit1 == lower(from_unit)
        to_unit1 == lower(to_unit)
    IN IF from_unit1 \notin DOMAIN to_pa \/ to_unit1 \notin DOMAIN to_pa
       THEN Raise("ValueError", PressureMessage)
       ELSE LET pa_value == FMul(value, to_pa[from_unit1])
            IN Return(FDiv(pa_value, to_pa[to_unit1]))

(***************************************************************************)
(* convert_temperature                                                     *)
(***************************************************************************)
\* a faulty variant: a unit added to the list without a branch of its own
valid_units_rankine ==
    {<<"c">>, <<"c", "e", "l", "s", "i", "u", "s">>, <<"f">>,
     <<"f", "a", "h", "r", "e", "n", "h", "e", "i", "t">>, <<"k">>,
     <<"k", "e", "l", "v", "i", "n">>, <<"r">>}

valid_units == {<<"c">>, <<"c", "e", "l", "s", "i", "u", "s">>, <<"f">>, <<"f", "a", "h", "r", "e", "n", "h", "e", "i", "t">>, <<"k">>, <<"k", "e", "l", "v", "i", "n">>}

TemperatureMessage == "Unsupported temperature units. Use: c, f, k"

KelvinOffset == DecimalToFloat(FALSE, 27315, -2)

\* a faulty variant: 9/5 where 5/9 belongs
ToCelsius_9_5(value, from_unit) ==
    CASE from_unit = "c" -> value
      [] from_unit = "f" -> FDiv(FMul(FSub(value, FromInt(32)), FromInt(9)), FromInt(5))
      [] from_unit = "k" -> FSub(value, KelvinOffset)
      [] OTHER -> Unbound

\* lines 45-51: the if/elif chain has no else, so celsius may stay unbound
ToCelsius(value, from_unit) ==
    CASE from_unit = "c" -> value
      [] from_unit = "f" -> FDiv(FMul(FSub(value, FromInt(32)), FromInt(5)), FromInt(9))
      [] from_unit = "k" -> FSub(value, KelvinOffset)
      [] OTHER -> Unbound

\* a faulty variant: 273 for 273.15 on the way to Kelvin
FromCelsius_273(celsius, to_unit) ==
    IF to_unit \notin {"c", "f", "k"} THEN Return(PyNone)
    ELSE IF celsius = Unbound THEN Raise("UnboundLocalError", "celsius")
    ELSE CASE to_unit = "c" -> Return(celsius)
           [] to_unit = "f" -> Return(FAdd(FDiv(FMul(celsius, FromInt(9)), FromInt(5)), FromInt(32)))
           [] to_unit = "k" -> Return(FAdd(celsius, FromInt(273)))

\* lines 53-59: reading an unbound celsius raises; no branch taken returns None
FromCelsius(celsius, to_unit) ==
    IF to_unit \notin {"c", "f", "k"} THEN Return(PyNone)
    ELSE IF celsius = Unbound
         THEN Raise("UnboundLocalError", "celsius")
    ELSE CASE to_unit = "c" -> Return(celsius)
           [] to_unit = "f" -> Return(FAdd(FDiv(FMul(celsius, FromInt(9)), FromInt(5)), FromInt(32)))
           [] to_unit = "k" -> Return(FAdd(celsius, KelvinOffset))

\* a faulty variant: only the first letter of each token is looked at
convert_temperature_first_letter(value, from_unit, to_unit) ==
    LET from_unit1 == lower(from_unit)
        to_unit1 == lower(to_unit)
    IN IF \/ from_unit1 = <<>> \/ to_unit1 = <<>>
          \/ from_unit1[1] \notin {"c", "f", "k"} \/ to_unit1[1] \notin {"c", "f", "k"}
       THEN Raise("ValueError", TemperatureMessage)
       ELSE FromCelsius(ToCelsius(value, from_unit1[1]), to_unit1[1])

convert_temperature(value, from_unit, to_unit) ==
    LET from_unit1 == lower(from_unit)
        to_unit1 == lower(to_unit)
    IN IF from_unit1 \notin valid_units \/ to_unit1 \notin valid_units
       THEN Raise("ValueError", TemperatureMessage)
       ELSE FromCelsius(ToCelsius(value, from_unit1[1]), to_unit1[1])

(***************************************************************************)
(* convert_flow                                                            *)
(***************************************************************************)
gpm == <<"g", "p", "m">>
lpm == <<"l", "p", "m">>
m3h == <<"m", "3", "h">>
m3_h == <<"m", "3", "/", "h">>

\* a faulty variant: the m3h factor rounded to two decimals
to_lpm_rounded == (gpm :> DecimalToFloat(FALSE, 378541, -5))
               @@ (lpm :> FromInt(1))
               @@ (m3h :> DecimalToFloat(FALSE, 1667, -2))
               @@ (m3_h :> DecimalToFloat(FALSE, 1667, -2))

to_lpm == (gpm :> DecimalToFloat(FALSE, 378541, -5))
       @@ (lpm :> FromInt(1))
       @@ (m3h :> DecimalToFloat(FALSE, 166667, -4))
       @@ (m3_h :> DecimalToFloat(FALSE, 166667, -4))

FlowMessage == "Unsupported flow units. Use: gpm, lpm, m3h (or m3/h)"

\* a faulty variant: to_unit is not lowercased
convert_flow_case_sensitive_to(value, from_unit, to_unit) ==
    LET from_unit1 == replace(lower(from_unit), "/", <<>>)
        to_unit1 == replace(to_unit, "/", <<>>)
    IN IF from_unit1 \notin DOMAIN to_lpm \/ to_unit1 \notin DOMAIN to_lpm
       THEN Raise("ValueError", FlowMessage)
       ELSE Return(FDiv(FMul(value, to_lpm[from_unit1]), to_lpm[to_unit1]))

\* a faulty variant: the slash replaced by a space, not removed
convert_flow_slash_to_space(value, from_unit, to_unit) ==
    LET from_unit1 == replace(lower(from_unit), "/", <<" ">>)
        to_unit1 == replace(lower(to_unit), "/", <<" ">>)
    IN IF from_unit1 \notin DOMAIN to_lpm \/ to_unit1 \notin DOMAIN to_lpm
       THEN Raise("ValueError", FlowMessage)
       ELSE Return(FDiv(FMul(value, to_lpm[from_unit1]), to_lpm[to_unit1]))

convert_flow(value, from_unit, to_unit) ==
    LET from_unit1 == replace(lower(from_unit), "/", <<>>)
        to_unit1 == replace(lower(to_unit), "/", <<>>)
    IN IF from_unit1 \notin DOMAIN to_lpm \/ to_unit1 \notin DOMAIN to_lpm
       THEN Raise("ValueError", FlowMessage)
       ELSE LET lpm_value == FMul(value, to_lpm[from_unit1])
            IN Return(FDiv(lpm_value, to_lpm[to_unit1]))

(***************************************************************************)
(* Inputs.  float() is given as the table of its results on the value      *)
(* texts used; any other text is not a number (ValueError).                *)
(***************************************************************************)
NumValues == 12

ValueTexts == <<"100", "0", "1e-10", "212", "1", "-40", "273.15", "1e300",
                "5e-324", "1e308", "nan", "inf", "50">>

NotANumber == [k |-> "ValueError", s |-> 0, m |-> <<>>, e |-> 0]

float(text) ==
    CASE text = "100" -> FromInt(100)
      [] text = "0" -> FromInt(0)
      [] text = "1e-10" -> DecimalToFloat(FALSE, 1, -10)
      [] text = "212" -> FromInt(212)
      [] text = "1" -> FromInt(1)
      [] text = "-40" -> FromInt(-40)
      [] text = "273.15" -> DecimalToFloat(FALSE, 27315, -2)
      [] text = "1e300" -> Fin(0, <<30108, 4096, 4338, 191>>, 944)
      [] text = "5e-324" -> Fin(0, <<1>>, MinExp)
      [] text = "1e308" -> Fin(0, <<18592, 3031, 13262, 142>>, MaxExp)
      [] text = "nan" -> FNaN
      [] text = "inf" -> FInf(0)
      [] text = "50" -> FromInt(50)
      [] OTHER -> NotANumber

Texts == {ValueTexts[i] : i \in 1..Min(NumValues, Len(ValueTexts))}

Values == {float(text) : text \in Texts}

PressureTokens == {
    <<"p", "s", "i">>,
    <<"P", "S", "I">>,
    <<"P", "s", "i">>,
    <<"b", "a", "r">>,
    <<"k", "p", "a">>,
    <<"k", "P", "a">>,
    <<"m", "p", "a">>,
    <<"p", "a">>,
    <<"a", "t", "m">>,
    <<"p", "s", "i", "x">>,
    <<>>
}

TemperatureTokens == {
    <<"c">>,
    <<"C">>,
    <<"c", "e", "l", "s", "i", "u", "s">>,
    <<"C", "e", "l", "s", "i", "u", "s">>,
    <<"f">>,
    <<"F">>,
    <<"f", "a", "h", "r", "e", "n", "h", "e", "i", "t">>,
    <<"k">>,
    <<"K">>,
    <<"k", "e", "l", "v", "i", "n">>,
    <<"K", "E", "L", "V", "I", "N">>,
    <<"k", "x", "y", "z">>,
    <<"k", "e", "l", "v", "i", "n", "X", "X", "X", "X">>,
    <<"r">>
}

FlowTokens == {
    <<"g", "p", "m">>,
    <<"G", "P", "M">>,
    <<"l", "p", "m">>,
    <<"m", "3", "h">>,
    <<"M", "3", "H">>,
    <<"m", "3", "/", "h">>,
    <<"M", "3", "/", "H">>,
    <<"m", "3", "/", "/", "h">>,
    <<"c", "f", "m">>,
    <<"/">>
}

Functions == {"convert_pressure", "convert_temperature", "convert_flow"}

Tokens(fn) == CASE fn = "convert_pressure" -> PressureTokens
                [] fn = "convert_temperature" -> TemperatureTokens
                [] fn = "convert_flow" -> FlowTokens

Apply(fn, value, from_unit, to_unit) ==
    CASE fn = "convert_pressure" -> convert_pressure(value, from_unit, to_unit)
      [] fn = "convert_temperature" -> convert_temperature(value, from_unit, to_unit)
      [] fn = "convert_flow" -> convert_flow(value, from_unit, to_unit)

(***************************************************************************)
(* The functions called directly: one call, then the call back with the    *)
(* units swapped on the value returned.                                    *)
(***************************************************************************)
NoCall == [fn |-> "", value |-> PyNone, from_unit |-> <<>>, to_unit |-> <<>>]

Calls == UNION {{[fn |-> fn, value |-> v, from_unit |-> f, to_unit |-> t] :
                   v \in Values, f \in Tokens(fn), t \in Tokens(fn)} : fn \in Functions}

CliIdle ==
    /\ argv = <<>>
    /\ pc = "idle"
    /\ args = [type |-> "", value |-> PyNone, from_unit |-> <<>>, to_unit |-> <<>>]
    /\ result = PyNone
    /\ stdout = <<>>
    /\ stderr = <<>>
    /\ exitcode = -1

InitCalls ==
    /\ call \in Calls
    /\ ret = NotCalled
    /\ back = NotCalled
    /\ CliIdle

Call ==
    /\ call # NoCall
    /\ ret = NotCalled
    /\ ret' = Apply(call.fn, call.value, call.from_unit, call.to_unit)
    /\ UNCHANGED <<call, back>>
    /\ UNCHANGED cli

RoundTrip ==
    /\ ret.tag = "return"
    /\ back = NotCalled
    /\ back' = Apply(call.fn, ret.val, call.to_unit, call.from_unit)
    /\ UNCHANGED <<call, ret>>
    /\ UNCHANGED cli

NextCalls == Call \/ RoundTrip

SpecCalls == InitCalls /\ [][NextCalls]_vars

(***************************************************************************)
(* The script run from the command line.  argv is sys.argv without the     *)
(* program name; exitcode is -1 while the process runs.                    *)
(***************************************************************************)
choices == {"pressure", "temp", "flow"}

FunctionOf(type) == CASE type = "pressure" -> "convert_pressure"
                      [] type = "temp" -> "convert_temperature"
                      [] type = "flow" -> "convert_flow"

Text(text) == [kind |-> "text", text |-> text, data |-> <<>>]

\* the digits of {result:.4f} and {result:.2f} are not modelled
ResultLine(a, r) ==
    [kind |-> "result", text |-> a.type,
     data |-> IF a.type = "temp" THEN <<a.value, upper(a.from_unit), r, upper(a.to_unit)>>
                                  ELSE <<a.value, a.from_unit, r, a.to_unit>>]

ErrorLine(msg) == [kind |-> "error", text |-> "Error: ", data |-> <<msg>>]

Traceback(exc) == [kind |-> "traceback", text |-> exc, data |-> <<>>]

Usage(msg) == [kind |-> "usage", text |-> msg, data |-> <<>>]

NoArgs == [type |-> "", value |-> PyNone, from_unit |-> <<>>, to_unit |-> <<>>]

Argvs ==
    {<<>>}
    \cup UNION {{<<type, text, f, t>> :
                   text \in Texts, f \in Tokens(FunctionOf(type)), t \in Tokens(FunctionOf(type))} :
                type \in choices}
    \cup {<<"pressure">>, <<"pressure", "100", psi>>,
          <<"volume", "1", psi, bar>>, <<"pressure", "abc", psi, bar>>,
          <<"pressure", "100", <<"-", "x">>, bar>>}

HarnessIdle ==
    /\ call = NoCall
    /\ ret = NotCalled
    /\ back = NotCalled

Init ==
    /\ argv \in Argvs
    /\ pc = "start"
    /\ args = NoArgs
    /\ result = PyNone
    /\ stdout = <<>>
    /\ stderr = <<>>
    /\ exitcode = -1
    /\ HarnessIdle

\* lines 120-124, 150
Start ==
    /\ pc = "start"
    /\ IF Len(argv) = 0
       THEN /\ stdout' = <<Text("Running self-test..."), Text("")>>
            /\ pc' = "assert1"
       ELSE /\ pc' = "main"
            /\ UNCHANGED stdout
    /\ UNCHANGED <<argv, args, result, stderr, exitcode>>
    /\ UNCHANGED harness

\* lines 127-139; the arguments are Python ints, each exactly a float
SelfTests == <<
    [fn |-> "convert_pressure", value |-> FromInt(100), from_unit |-> psi, to_unit |-> bar,
     expected |-> DecimalToFloat(FALSE, 68948, -4), tol |-> DecimalToFloat(FALSE, 1, -3),
     print |-> <<>>],
    [fn |-> "convert_pressure", value |-> FromInt(1), from_unit |-> bar, to_unit |-> kpa,
     expected |-> FromInt(100), tol |-> DecimalToFloat(FALSE, 1, -3),
     print |-> <<Text("Pressure conversions work")>>],
    [fn |-> "convert_temperature", value |-> FromInt(212), from_unit |-> <<"f">>, to_unit |-> <<"c">>,
     expected |-> FromInt(100), tol |-> DecimalToFloat(FALSE, 1, -2),
     print |-> <<>>],
    [fn |-> "convert_temperature", value |-> FromInt(0), from_unit |-> <<"c">>, to_unit |-> <<"k">>,
     expected |-> DecimalToFloat(FALSE, 27315, -2), tol |-> DecimalToFloat(FALSE, 1, -2),
     print |-> <<Text("Temperature conversions work")>>],
    [fn |-> "convert_flow", value |-> FromInt(1), from_unit |-> gpm, to_unit |-> lpm,
     expected |-> DecimalToFloat(FALSE, 378541, -5), tol |-> DecimalToFloat(FALSE, 1, -3),
     print |-> <<>>],
    [fn |-> "convert_flow", value |-> FromInt(1), from_unit |-> m3h, to_unit |-> lpm,
     expected |-> DecimalToFloat(FALSE, 166667, -4), tol |-> DecimalToFloat(FALSE, 1, -3),
     print |-> <<Text("Flow conversions work")>>] >>

AssertPc == <<"assert1", "assert2", "assert3", "assert4", "assert5", "assert6", "exit0">>

\* assert abs(f(value, from_unit, to_unit) - expected) < tol
Within(out, expected, tol) ==
    /\ out.tag = "return"
    /\ IsFloat(out.val)
    /\ FLess(FAbs(FSub(out.val, expected)), tol)

AssertHolds(t) == Within(Apply(t.fn, t.value, t.from_unit, t.to_unit), t.expected, t.tol)

SelfTestStep(t, next) ==
    /\ IF AssertHolds(t)
       THEN /\ pc' = next
            /\ stdout' = stdout \o t.print
            /\ UNCHANGED <<stderr, exitcode>>
       ELSE /\ pc' = "done"
            /\ stderr' = Append(stderr, Traceback("AssertionError"))
            /\ exitcode' = 1
            /\ UNCHANGED stdout
    /\ UNCHANGED <<argv, args, result>>
    /\ UNCHANGED harness

SelfTestAssert ==
    \E i \in 1..Len(SelfTests) :
        pc = AssertPc[i] /\ SelfTestStep(SelfTests[i], AssertPc[i + 1])

\* lines 141-148
SelfTestExit ==
    /\ pc = "exit0"
    /\ stdout' = stdout \o <<Text(""), Text("All tests passed!"), Text(""),
                             Text("Usage examples:"),
                             Text("  python converter.py pressure 100 psi bar"),
                             Text("  python converter.py temp 212 f c"),
                             Text("  python converter.py flow 50 gpm m3h")>>
    /\ exitcode' = 0
    /\ pc' = "done"
    /\ UNCHANGED <<argv, args, result, stderr>>
    /\ UNCHANGED harness

\* lines 83-100: argparse takes four positionals, none of them starting
\* like an option; a rejected command line ends the process with status 2
OptionLike(str) == str # <<>> /\ str[1] = "-"

Accepted(av) ==
    /\ Len(av) = 4
    /\ av[1] \in choices
    /\ float(av[2]) # NotANumber
    /\ ~OptionLike(av[3])
    /\ ~OptionLike(av[4])

parse_args ==
    /\ pc = "main"
    /\ IF Accepted(argv)
       THEN /\ args' = [type |-> argv[1], value |-> float(argv[2]),
                        from_unit |-> argv[3], to_unit |-> argv[4]]
            /\ pc' = "try"
            /\ UNCHANGED <<stderr, exitcode>>
       ELSE /\ stderr' = Append(stderr, Usage("error"))
            /\ exitcode' = 2
            /\ pc' = "done"
            /\ UNCHANGED args
    /\ UNCHANGED <<argv, result, stdout>>
    /\ UNCHANGED harness

\* a faulty variant: the except clause prints the message and forgets sys.exit(1)
Outcome_no_exit(out) ==
    IF out.tag = "return"
    THEN /\ result' = out.val
         /\ stdout' = Append(stdout, ResultLine(args, out.val))
         /\ pc' = "return"
         /\ UNCHANGED <<stderr, exitcode>>
    ELSE /\ stderr' = Append(stderr, ErrorLine(out.msg))
         /\ pc' = "return"
         /\ UNCHANGED <<result, stdout, exitcode>>

\* lines 102-117: the try block and its except clause
Outcome(out) ==
    IF out.tag = "return"
    THEN /\ result' = out.val
         /\ IF IsFloat(out.val)
            THEN /\ stdout' = Append(stdout, ResultLine(args, out.val))
                 /\ pc' = "return"
                 /\ UNCHANGED <<stderr, exitcode>>
            ELSE /\ stderr' = Append(stderr, Traceback("TypeError"))
                 /\ exitcode' = 1
                 /\ pc' = "done"
                 /\ UNCHANGED stdout
    ELSE /\ stderr' = Append(stderr, IF out.exc = "ValueError" THEN ErrorLine(out.msg)
                                                                ELSE Traceback(out.exc))
         /\ exitcode' = 1
         /\ pc' = "done"
         /\ UNCHANGED <<result, stdout>>

main_try ==
    /\ pc = "try"
    /\ Outcome(Apply(FunctionOf(args.type), args.value, args.from_unit, args.to_unit))
    /\ UNCHANGED <<argv, args>>
    /\ UNCHANGED harness

\* main() returns and the interpreter ends
main_return ==
    /\ pc = "return"
    /\ exitcode' = 0
    /\ pc' = "done"
    /\ UNCHANGED <<argv, args, result, stdout, stderr>>
    /\ UNCHANGED harness

Next == Start \/ SelfTestAssert \/ SelfTestExit \/ parse_args \/ main_try \/ main_return

Spec == Init /\ [][Next]_vars

(***************************************************************************)
(* The claims.  A token spells a unit name when the two differ at most in  *)
(* the case of their letters.                                              *)
(***************************************************************************)
SameLetter(x, y) ==
    x = y \/ \E i \in Letters : {x, y} = {UpperAlphabet[i], LowerAlphabet[i]}

Spells(token, name) ==
    Len(token) = Len(name) /\ \A i \in 1..Len(token) : SameLetter(token[i], name[i])

Called == ret.tag # "not called"

Returned == ret.tag = "return"

RaisedUnsupportedUnit(out) == out.tag = "raise" /\ out.exc = "ValueError" /\ out.val = PyNone

\* the factors of the two tables, relative to the base unit
Factors == {
    [fn |-> "convert_pressure", unit |-> <<"p", "s", "i">>, factor |-> DecimalToFloat(FALSE, 6894757, -3)],
    [fn |-> "convert_pressure", unit |-> <<"b", "a", "r">>, factor |-> FromInt(100000)],
    [fn |-> "convert_pressure", unit |-> <<"k", "p", "a">>, factor |-> FromInt(1000)],
    [fn |-> "convert_pressure", unit |-> <<"m", "p", "a">>, factor |-> FromInt(1000000)],
    [fn |-> "convert_pressure", unit |-> <<"p", "a">>, factor |-> FromInt(1)],
    [fn |-> "convert_flow", unit |-> <<"g", "p", "m">>, factor |-> DecimalToFloat(FALSE, 378541, -5)],
    [fn |-> "convert_flow", unit |-> <<"l", "p", "m">>, factor |-> FromInt(1)],
    [fn |-> "convert_flow", unit |-> <<"m", "3", "h">>, factor |-> DecimalToFloat(FALSE, 166667, -4)] }

Supported(fn, token) == \E r \in Factors : r.fn = fn /\ Spells(token, r.unit)

Factor(fn, token) == (CHOOSE r \in Factors : r.fn = fn /\ Spells(token, r.unit)).factor

BaseUnit(fn, token) ==
    \/ fn = "convert_pressure" /\ Spells(token, <<"p", "a">>)
    \/ fn = "convert_flow" /\ Spells(token, <<"l", "p", "m">>)

\* C1: convert_pressure and convert_flow return value * from_factor / to_factor
\* for every value and every pair of supported units, with the factors of the
\* tables; the base unit's factor is 1, so base to base returns the value.
C1_ScaleThroughBase ==
    (/\ Called
     /\ call.fn \in {"convert_pressure", "convert_flow"}
     /\ Supported(call.fn, call.from_unit)
     /\ Supported(call.fn, call.to_unit))
    => /\ ret = Return(FDiv(FMul(call.value, Factor(call.fn, call.from_unit)),
                            Factor(call.fn, call.to_unit)))
       /\ (BaseUnit(call.fn, call.from_unit) /\ BaseUnit(call.fn, call.to_unit))
              => ret = Return(call.value)

\* 100 bar is 10000 kPa
C1_Witness ==
    /\ call.fn = "convert_pressure"
    /\ call.value = FromInt(100)
    /\ call.from_unit = <<"b", "a", "r">>
    /\ call.to_unit = <<"k", "P", "a">>
    /\ ret = Return(FromInt(10000))

TemperatureUnit(token) ==
    CASE Spells(token, <<"c">>) \/ Spells(token, <<"c", "e", "l", "s", "i", "u", "s">>) -> "c"
      [] Spells(token, <<"f">>) \/ Spells(token, <<"f", "a", "h", "r", "e", "n", "h", "e", "i", "t">>) -> "f"
      [] Spells(token, <<"k">>) \/ Spells(token, <<"k", "e", "l", "v", "i", "n">>) -> "k"
      [] OTHER -> "none"

AcceptedUnits(from_unit, to_unit) ==
    TemperatureUnit(from_unit) # "none" /\ TemperatureUnit(to_unit) # "none"

CelsiusOf(value, unit) ==
    CASE unit = "c" -> value
      [] unit = "f" -> FDiv(FMul(FSub(value, FromInt(32)), FromInt(5)), FromInt(9))
      [] unit = "k" -> FSub(value, DecimalToFloat(FALSE, 27315, -2))

OfCelsius(celsius, unit) ==
    CASE unit = "c" -> celsius
      [] unit = "f" -> FAdd(FDiv(FMul(celsius, FromInt(9)), FromInt(5)), FromInt(32))
      [] unit = "k" -> FAdd(celsius, DecimalToFloat(FALSE, 27315, -2))

\* C2: for every value and every pair of accepted temperature units,
\* convert_temperature maps the input to Celsius (c: identity, f: (value - 32)
\* * 5 / 9, k: value - 273.15), maps that to the target (c: identity, f:
\* celsius * 9 / 5 + 32, k: celsius + 273.15) and returns exactly that.
C2_ThroughCelsius ==
    (/\ Called
     /\ call.fn = "convert_temperature"
     /\ AcceptedUnits(call.from_unit, call.to_unit))
    => ret = Return(OfCelsius(CelsiusOf(call.value, TemperatureUnit(call.from_unit)),
                              TemperatureUnit(call.to_unit)))

\* 212 F is 100 C
C2_Witness ==
    /\ call.fn = "convert_temperature"
    /\ call.value = FromInt(212)
    /\ call.from_unit = <<"f">>
    /\ call.to_unit = <<"c">>
    /\ ret = Return(FromInt(100))

WithoutSlash(token) == SelectSeq(token, LAMBDA ch : ch # "/")

\* a token is in the domain's valid set after the domain's normalization
InValidSet(fn, token) ==
    CASE fn = "convert_pressure" ->
            \E name \in {<<"p", "s", "i">>, <<"b", "a", "r">>, <<"k", "p", "a">>, <<"m", "p", "a">>, <<"p", "a">>} : Spells(token, name)
      [] fn = "convert_temperature" ->
            \E name \in {<<"c">>, <<"c", "e", "l", "s", "i", "u", "s">>, <<"f">>, <<"f", "a", "h", "r", "e", "n", "h", "e", "i", "t">>, <<"k">>, <<"k", "e", "l", "v", "i", "n">>} : Spells(token, name)
      [] fn = "convert_flow" ->
            \E name \in {<<"g", "p", "m">>, <<"l", "p", "m">>, <<"m", "3", "h">>, <<"m", "3", "/", "h">>} : Spells(WithoutSlash(token), name)

\* C3: in each domain a call whose from_unit or to_unit is, after the domain's
\* normalization, not in the valid set raises the unsupported-unit error and
\* returns no value, whichever of the two positions holds the bad token.
C3_UnsupportedUnit ==
    (/\ Called
     /\ \/ ~InValidSet(call.fn, call.from_unit)
        \/ ~InValidSet(call.fn, call.to_unit))
    => RaisedUnsupportedUnit(ret)

\* "atm" as the to_unit of a call whose from_unit is valid
C3_Witness ==
    /\ call.fn = "convert_pressure"
    /\ call.from_unit = <<"p", "s", "i">>
    /\ call.to_unit = <<"a", "t", "m">>
    /\ RaisedUnsupportedUnit(ret)

FirstLetterOnly(token) ==
    token # <<>> /\ \E ch \in {"c", "f", "k"} : SameLetter(token[1], ch)

\* C4 as stated: convert_temperature accepts any token whose first character
\* is c, f or k whatever follows, and returns what the one-letter unit returns.
C4_AcceptsAnyPrefixed ==
    (/\ Called
     /\ call.fn = "convert_temperature"
     /\ FirstLetterOnly(call.from_unit)
     /\ FirstLetterOnly(call.to_unit))
    => /\ Returned
       /\ ret = convert_temperature(call.value, <<call.from_unit[1]>>, <<call.to_unit[1]>>)

\* C4 amended: the whole token decides.  A token that spells one of c,
\* celsius, f, fahrenheit, k, kelvin gives what its first letter gives; any
\* other token, also one that starts with c, f or k such as "kxyz" or
\* "kelvinXXXX", in either position raises the unsupported-unit error.
C4_WholeTokenDecides ==
    (Called /\ call.fn = "convert_temperature")
    => IF AcceptedUnits(call.from_unit, call.to_unit)
       THEN /\ Returned
            /\ ret = convert_temperature(call.value, <<call.from_unit[1]>>, <<call.to_unit[1]>>)
       ELSE RaisedUnsupportedUnit(ret)

\* "kxyz" as the to_unit is refused
C4_Witness ==
    /\ call.fn = "convert_temperature"
    /\ call.from_unit = <<"c">>
    /\ call.to_unit = <<"k", "x", "y", "z">>
    /\ RaisedUnsupportedUnit(ret)

RoundTripped == back.tag # "not called"

IsFinite(value) == value.k = "fin"

\* abs(x - y) <= tol, in floating point
CloseTo(x, y, tol) == IsFloat(x) /\ FLeq(FAbs(FSub(x, y)), tol)

RelTol == DecimalToFloat(FALSE, 1, -6)

Huge == float("1e300")

\* C5 as stated: converting A to B and the result back to A returns the
\* original value within 1e-6 relative tolerance, for every domain, every
\* (finite) value and every pair of supported units.
C5_RoundTripRelative ==
    (RoundTripped /\ IsFinite(call.value))
    => /\ back.tag = "return"
       /\ CloseTo(back.val, call.value, FMul(RelTol, FAbs(call.value)))

\* C5 amended: for every domain, every pair of supported units and every
\* finite value of magnitude at most 1e300, converting A to B and the result
\* back to A returns a value within 1e-6 * max(1, |value|) of the original:
\* 1e-6 relative for magnitudes from 1 on, 1e-6 absolute below.
C5_RoundTripClose ==
    (RoundTripped /\ IsFinite(call.value) /\ FLeq(FAbs(call.value), Huge))
    => /\ back.tag = "return"
       /\ CloseTo(back.val, call.value,
                  FMul(RelTol, IF FLess(FAbs(call.value), FromInt(1))
                               THEN FromInt(1) ELSE FAbs(call.value)))

\* 0 F to K and back is not 0 but about 1e-14
C5_Witness ==
    /\ call.fn = "convert_temperature"
    /\ call.value = FromInt(0)
    /\ call.from_unit = <<"f">>
    /\ call.to_unit = <<"k">>
    /\ back.tag = "return"
    /\ back.val # call.value
    /\ CloseTo(back.val, call.value, DecimalToFloat(FALSE, 1, -13))

\* C6: unit matching is case-insensitive in all three converters: with either
\* token replaced by another upper/lower-case spelling of it the call has the
\* identical outcome, the same value returned or the same error raised.
C6_CaseInsensitive ==
    Called =>
        \A f \in Tokens(call.fn), t \in Tokens(call.fn) :
            (Spells(f, call.from_unit) /\ Spells(t, call.to_unit))
            => Apply(call.fn, call.value, f, t) = ret

\* "PSI" to "kPa" returns what "psi" to "kpa" returns
C6_Witness ==
    /\ call.fn = "convert_pressure"
    /\ call.value = FromInt(100)
    /\ call.from_unit = <<"P", "S", "I">>
    /\ call.to_unit = <<"k", "P", "a">>
    /\ Returned
    /\ ret = convert_pressure(call.value, <<"p", "s", "i">>, <<"k", "p", "a">>)

SlashForms(token) ==
    IF token \in {<<"m", "3", "h">>, <<"m", "3", "/", "h">>} THEN {<<"m", "3", "h">>, <<"m", "3", "/", "h">>} ELSE {token}

\* C7: in convert_flow "m3/h" and "m3h" are equivalent inputs: in the
\* from_unit position, the to_unit position or both, either gives exactly the
\* result of the other, for every value and every other flow unit.
C7_SlashEquivalent ==
    (Called /\ call.fn = "convert_flow")
    => \A f \in SlashForms(call.from_unit), t \in SlashForms(call.to_unit) :
           convert_flow(call.value, f, t) = ret

\* 1 m3/h is 16.6667 lpm
C7_Witness ==
    /\ call.fn = "convert_flow"
    /\ call.value = FromInt(1)
    /\ call.from_unit = <<"m", "3", "/", "h">>
    /\ call.to_unit = <<"l", "p", "m">>
    /\ ret = Return(DecimalToFloat(FALSE, 166667, -4))

\* C10: convert_temperature is total on accepted input: when the tokens pass
\* the valid-set check the first character of each lowercased token is c, f
\* or k, the Celsius value is assigned and a return branch is taken; the call
\* never returns None and never reads an unassigned celsius.
C10_TemperatureTotal ==
    (Called /\ call.fn = "convert_temperature")
    => \/ RaisedUnsupportedUnit(ret)
       \/ /\ Returned
          /\ IsFloat(ret.val)
          /\ lower(call.from_unit)[1] \in {"c", "f", "k"}
          /\ lower(call.to_unit)[1] \in {"c", "f", "k"}
          /\ ToCelsius(call.value, lower(call.from_unit)[1]) # Unbound

\* "Fahrenheit" to "KELVIN" returns a float
C10_Witness ==
    /\ call.fn = "convert_temperature"
    /\ call.from_unit = <<"f", "a", "h", "r", "e", "n", "h", "e", "i", "t">>
    /\ call.to_unit = <<"K", "E", "L", "V", "I", "N">>
    /\ Returned
    /\ IsFloat(ret.val)

Parsed == args # NoArgs

Converted == Apply(FunctionOf(args.type), args.value, args.from_unit, args.to_unit)

Expectations == <<
    [fn |-> "convert_pressure", value |-> FromInt(100), from_unit |-> <<"p", "s", "i">>, to_unit |-> <<"b", "a", "r">>,
     about |-> DecimalToFloat(FALSE, 68948, -4), within |-> DecimalToFloat(FALSE, 1, -3)],
    [fn |-> "convert_pressure", value |-> FromInt(1), from_unit |-> <<"b", "a", "r">>, to_unit |-> <<"k", "p", "a">>,
     about |-> FromInt(100), within |-> DecimalToFloat(FALSE, 1, -3)],
    [fn |-> "convert_temperature", value |-> FromInt(212), from_unit |-> <<"f">>, to_unit |-> <<"c">>,
     about |-> FromInt(100), within |-> DecimalToFloat(FALSE, 1, -2)],
    [fn |-> "convert_temperature", value |-> FromInt(0), from_unit |-> <<"c">>, to_unit |-> <<"k">>,
     about |-> DecimalToFloat(FALSE, 27315, -2), within |-> DecimalToFloat(FALSE, 1, -2)],
    [fn |-> "convert_flow", value |-> FromInt(1), from_unit |-> <<"g", "p", "m">>, to_unit |-> <<"l", "p", "m">>,
     about |-> DecimalToFloat(FALSE, 378541, -5), within |-> DecimalToFloat(FALSE, 1, -3)],
    [fn |-> "convert_flow", value |-> FromInt(1), from_unit |-> <<"m", "3", "h">>, to_unit |-> <<"l", "p", "m">>,
     about |-> DecimalToFloat(FALSE, 166667, -4), within |-> DecimalToFloat(FALSE, 1, -3)] >>

Expected(e) ==
    LET out == Apply(e.fn, e.value, e.from_unit, e.to_unit)
    IN /\ out.tag = "return"
       /\ IsFloat(out.val)
       /\ FLess(FAbs(FSub(out.val, e.about)), e.within)

SelfTestSafe ==
    /\ pc \notin {"main", "try", "return"}
    /\ args = NoArgs
    /\ exitcode \in {-1, 0}
    /\ stderr = <<>>
    /\ pc \in {"start", "exit0", "done"} \cup {AssertPc[i] : i \in 1..Len(Expectations)}
    /\ \A i \in 1..Len(Expectations) : pc = AssertPc[i] => Expected(Expectations[i])
    /\ pc = "done" => exitcode = 0

\* C9: started without arguments the program runs the self-test and ends
\* only with exit code 0: each of the six assertions holds where it is reached (100 psi is within
\* 0.001 of 6.8948 bar, 1 bar of 100 kpa, 212 f within 0.01 of 100 c, 0 c of
\* 273.15 k, 1 gpm within 0.001 of 3.78541 lpm, 1 m3h of 16.6667 lpm), and
\* main() is never entered.
C9_SelfTestPasses == argv = <<>> => SelfTestSafe

\* the self-test has ended with exit code 0 and its three progress lines
C9_Witness ==
    /\ argv = <<>>
    /\ pc = "done"
    /\ exitcode = 0
    /\ \A t \in {"Pressure conversions work", "Temperature conversions work",
                 "Flow conversions work", "All tests passed!"} :
           \E i \in 1..Len(stdout) : stdout[i] = Text(t)

====
